---- MODULE Spec2Model ----
(***************************************************************************)
(* A model of the pynewb weather trackers: the precipitation and snowfall  *)
(* collectors (one scheduled Lambda each, writing observation records to a *)
(* DynamoDB table) and their read APIs (latest record per station, and for *)
(* precipitation the bounded history of one station).                      *)
(***************************************************************************)
EXTENDS Integers, Sequences, FiniteSets, TLC

VARIABLES
    project,      \* which deployment is modelled: "precipitation" or "snowfall"
    table,        \* the DynamoDB table: (station_id, timestamp) -> stored item
    now,          \* int(time.time()), the wall clock in seconds
    pc,           \* collector invocation: "idle", "loop", "returned", "raised"
    idx,          \* position of the for loop in STATIONS.items()
    timestamp,    \* the collector's local `timestamp`
    results,      \* the collector's local `results`
    response,     \* what the last finished collector invocation returned
    fetches,      \* per station: calls of get_station_data in this invocation
    puts,         \* per station: calls of table.put_item in this invocation
    wrote,        \* the stations whose put_item succeeded in this invocation
    cycles,       \* collector invocations started so far
    event,        \* the API request of the latest API invocation
    scanned,      \* what table.scan did in the latest API invocation
    apiResponse,  \* what the latest API invocation returned
    weather_data, \* a fetched weather_data dict (classifier and builder runs)
    precip_type,  \* classifier run: what determine_precip_type did
    built,        \* builder run: the item built from weather_data
    items,        \* aggregation run: the scanned items, in iteration order
    latest_data   \* aggregation run: the aggregated, sorted list

collectVars == <<table, now, pc, idx, timestamp, results, response, fetches,
                 puts, wrote, cycles>>
apiVars == <<event, scanned, apiResponse>>
classVars == <<weather_data, precip_type, built>>
aggVars == <<items, latest_data>>
vars == <<project, collectVars, apiVars, classVars, aggVars>>

----------------------------------------------------------------------------
(* Python values.  Every value carries its type, so that None, a number,   *)
(* a Decimal, a string and a dict stay distinct: <<"none">>, <<"num", n>>, *)
(* <<"dec", n>>, <<"str", s>>, <<"dict", f>>, <<"list", q>>.               *)

None == <<"none">>
Num(n) == <<"num", n>>
Str(s) == <<"str", s>>
Dict(f) == <<"dict", f>>
List(q) == <<"list", q>>
EmptyDict == <<>>

\* Decimal(str(v)) of a number v: the same number as a decimal.Decimal.
Decimal(v) == <<"dec", v[2]>>

\* float(obj) of a Decimal, as DecimalEncoder.default renders it.
Float(v) == <<"num", v[2]>>

IsNone(v) == v[1] = "none"

\* Python truthiness (`if x`, `x and ...`, `x or ...`).
Truthy(v) ==
    CASE v[1] = "none" -> FALSE
      [] v[1] = "num"  -> v[2] # 0
      [] v[1] = "dec"  -> v[2] # 0
      [] v[1] = "str"  -> v[2] # ""
      [] v[1] = "dict" -> DOMAIN v[2] # {}
      [] v[1] = "list" -> v[2] # <<>>

\* d.get(k, default) on a dict d.
Get(d, k, default) == IF k \in DOMAIN d[2] THEN d[2][k] ELSE default

\* The outcome of a call: a returned value or a raised exception.
Returned(v) == <<"return", v>>
Raised(e) == <<"raise", e>>
IsRaised(o) == o[1] = "raise"

----------------------------------------------------------------------------
(* Strings.  A description text is an atom to TLC; Chars gives its         *)
(* characters, so that str.lower() and the `in` substring test are         *)
(* computed character by character.                                        *)

Chars(s) ==
    CASE s = "Light Snow" -> <<"L", "i", "g", "h", "t", " ", "S", "n", "o", "w">>
      [] s = "Heavy Rain" -> <<"H", "e", "a", "v", "y", " ", "R", "a", "i", "n">>
      [] s = "Freezing Ice Pellets" ->
            <<"F", "r", "e", "e", "z", "i", "n", "g", " ", "I", "c", "e", " ",
              "P", "e", "l", "l", "e", "t", "s">>
      [] s = "Cloudy" -> <<"C", "l", "o", "u", "d", "y">>
      [] s = "Clear" -> <<"C", "l", "e", "a", "r">>
      [] s = "Light Drizzle" ->
            <<"L", "i", "g", "h", "t", " ", "D", "r", "i", "z", "z", "l", "e">>
      [] s = "SLEET" -> <<"S", "L", "E", "E", "T">>
      [] s = "Rain and Snow" ->
            <<"R", "a", "i", "n", " ", "a", "n", "d", " ", "S", "n", "o", "w">>
      [] s = "Unknown" -> <<"U", "n", "k", "n", "o", "w", "n">>
      [] s = "" -> <<>>

UpperChars ==
    <<"A", "B", "C", "D", "E", "F", "G", "H", "I", "J", "K", "L", "M", "N", "O",
      "P", "Q", "R", "S", "T", "U", "V", "W", "X", "Y", "Z">>
LowerChars ==
    <<"a", "b", "c", "d", "e", "f", "g", "h", "i", "j", "k", "l", "m", "n", "o",
      "p", "q", "r", "s", "t", "u", "v", "w", "x", "y", "z">>

\* str.lower(), one character and a whole text.
LowerChar(c) ==
    IF \E i \in 1..Len(UpperChars) : UpperChars[i] = c
    THEN LowerChars[CHOOSE i \in 1..Len(UpperChars) : UpperChars[i] = c]
    ELSE c
Lower(text) == [i \in 1..Len(text) |-> LowerChar(text[i])]

\* `word in text` on strings.
Contains(word, text) ==
    \E i \in 1..(Len(text) - Len(word) + 1) :
        SubSeq(text, i, i + Len(word) - 1) = word

WordSnow == <<"s", "n", "o", "w">>
WordRain == <<"r", "a", "i", "n">>
WordSleet == <<"s", "l", "e", "e", "t">>
WordIce == <<"i", "c", "e">>
WordDrizzle == <<"d", "r", "i", "z", "z", "l", "e">>

----------------------------------------------------------------------------
(* The precipitation classifier.                                           *)

\* `temp_c and temp_c <= 0` of the classifier's fallback.
FreezingTemp(temp_c) == Truthy(temp_c) /\ temp_c[2] <= 0

\* determine_precip_type(weather_data): the label it returns, or the
\* AttributeError of None.lower() when the conditions value is not a string.
DeterminePrecipType(wd) ==
    LET c == Get(wd, "conditions", Str(""))
        temp_c == Get(wd, "temperature", None)
        precip_1h == Get(wd, "precipitation_1h", None)
    IN  IF c[1] # "str" THEN Raised("AttributeError")
        ELSE LET conditions == Lower(Chars(c[2]))
             IN  Returned(
                   IF Contains(WordSnow, conditions) THEN "snow"
                   ELSE IF Contains(WordRain, conditions) THEN "rain"
                   ELSE IF Contains(WordSleet, conditions)
                           \/ Contains(WordIce, conditions) THEN "sleet"
                   ELSE IF Contains(WordDrizzle, conditions) THEN "rain"
                   ELSE IF Truthy(precip_1h) /\ precip_1h[2] > 0
                        THEN (IF FreezingTemp(temp_c) THEN "snow" ELSE "rain")
                   ELSE "none")

----------------------------------------------------------------------------
(* Bounds of the model.                                                    *)

MaxCycles == 2     \* collector invocations per behaviour
MaxReading == 1    \* sensor readings are -MaxReading..MaxReading

----------------------------------------------------------------------------
(* The station registry: the first two entries of each STATIONS dict.      *)
(* Coordinates are kept in 1/10000 degree.                                 *)

PrecipStations ==
    << [code |-> "KORD", name |-> "Chicago O'Hare", lat |-> 419742, lon |-> -879073],
       [code |-> "KMDW", name |-> "Chicago Midway", lat |-> 417868, lon |-> -877522] >>

SnowStations ==
    << [code |-> "KORD", name |-> "Chicago O'Hare", lat |-> 419742, lon |-> -879073],
       [code |-> "KMDW", name |-> "Chicago Midway", lat |-> 417868, lon |-> -877522] >>

\* STATIONS.items() of the modelled deployment, in insertion order.
STATIONS == IF project = "precipitation" THEN PrecipStations ELSE SnowStations

StationCodes == {STATIONS[i].code : i \in 1..Len(STATIONS)}

----------------------------------------------------------------------------
(* The observation fetcher.  An HTTP exchange either fails (network error, *)
(* timeout, non-success status, malformed JSON) or yields the decoded JSON *)
(* document.                                                               *)

HttpError == <<"error">>
HttpOk(data) == <<"ok", data>>

\* A "properties" object with the given values of its numeric properties
\* and the given textDescription.
PropertiesOf(t, sd, p1, p3, ws, vis, text) ==
    Dict([temperature |-> Dict([value |-> t]),
          snowDepth |-> Dict([value |-> sd]),
          precipitationLastHour |-> Dict([value |-> p1]),
          precipitationLast3Hours |-> Dict([value |-> p3]),
          windSpeed |-> Dict([value |-> ws]),
          visibility |-> Dict([value |-> vis]),
          textDescription |-> text,
          presentWeather |-> List(<<>>),
          timestamp |-> Str("2024-01-01T00:00:00+00:00")])

\* A "properties" object in which the temperature property is JSON null.
PropertiesNullTemperature ==
    Dict([temperature |-> None, textDescription |-> Str("Cloudy")])

\* A "properties" object whose numeric properties all read v.
Properties(v, text) == PropertiesOf(v, v, v, v, v, v, text)

\* What one request to the provider can do in a collection cycle: fail,
\* answer without "properties", with a null property, with readings of zero
\* or with readings of MaxReading and a null textDescription.
HttpResponses ==
    {HttpError,
     HttpOk(Dict(EmptyDict)),
     HttpOk(Dict([properties |-> PropertiesNullTemperature])),
     HttpOk(Dict([properties |-> Properties(Num(0), Str("Cloudy"))])),
     HttpOk(Dict([properties |-> Properties(Num(MaxReading), None)]))}

\* properties.get(k, {}).get('value'); raises AttributeError on a non-dict.
NestedValue(properties, k) ==
    LET inner == Get(properties, k, Dict(EmptyDict))
    IN  IF inner[1] = "dict" THEN Returned(Get(inner, "value", None))
        ELSE Raised("AttributeError")

NestedKeys ==
    IF project = "precipitation"
    THEN {"temperature", "snowDepth", "precipitationLastHour",
          "precipitationLast3Hours", "windSpeed", "visibility"}
    ELSE {"temperature", "snowDepth", "windSpeed", "visibility"}

\* get_station_data: the weather_data dict, or None when anything raised.
GetStationData(http) ==
    IF http = HttpError THEN None
    ELSE LET properties == Get(http[2], "properties", Dict(EmptyDict))
             val(k) == NestedValue(properties, k)[2]
         IN  IF \E k \in NestedKeys : IsRaised(NestedValue(properties, k))
             THEN None
             ELSE IF project = "precipitation"
             THEN Dict([temperature |-> val("temperature"),
                        snow_depth |-> val("snowDepth"),
                        precipitation_1h |-> val("precipitationLastHour"),
                        precipitation_3h |-> val("precipitationLast3Hours"),
                        wind_speed |-> val("windSpeed"),
                        visibility |-> val("visibility"),
                        conditions |-> Get(properties, "textDescription", Str("Unknown")),
                        present_weather |-> Get(properties, "presentWeather", List(<<>>)),
                        timestamp_obs |-> Get(properties, "timestamp", None)])
             ELSE Dict([temperature |-> val("temperature"),
                        snow_depth |-> val("snowDepth"),
                        wind_speed |-> val("windSpeed"),
                        visibility |-> val("visibility"),
                        conditions |-> Get(properties, "textDescription", Str("Unknown")),
                        timestamp_obs |-> Get(properties, "timestamp", None)])

----------------------------------------------------------------------------
(* The record builder.                                                     *)

\* `Decimal(str(v)) if v is not None else None` (precipitation collector).
DecimalIfNotNone(v) == IF ~IsNone(v) THEN Decimal(v) ELSE None

\* `Decimal(str(v)) if v else None` (snowfall collector).
DecimalIfTruthy(v) == IF Truthy(v) THEN Decimal(v) ELSE None

\* {k: v for k, v in item.items() if v is not None}
\* (`it \in {item}` has TLC evaluate the item once, here and below.)
RemoveNone(item) ==
    CHOOSE r \in {[k \in {f \in DOMAIN it : ~IsNone(it[f])} |-> it[k]] :
                     it \in {item}} : TRUE

\* The item the precipitation collector builds for one station.
PrecipItem(station, ts, wd, ptype) ==
    RemoveNone(
      [station_id |-> Str(station.code),
       timestamp |-> Num(ts),
       station_name |-> Str(station.name),
       latitude |-> Decimal(Num(station.lat)),
       longitude |-> Decimal(Num(station.lon)),
       temperature_c |-> DecimalIfNotNone(wd[2].temperature),
       snow_depth_m |-> DecimalIfNotNone(wd[2].snow_depth),
       precip_1h_mm |-> DecimalIfNotNone(wd[2].precipitation_1h),
       precip_3h_mm |-> DecimalIfNotNone(wd[2].precipitation_3h),
       wind_speed_kmh |-> DecimalIfNotNone(wd[2].wind_speed),
       visibility_m |-> DecimalIfNotNone(wd[2].visibility),
       conditions |-> wd[2].conditions,
       precip_type |-> Str(ptype),
       observation_time |-> wd[2].timestamp_obs])

\* The item the snowfall collector builds for one station.
SnowItem(station, ts, wd) ==
    RemoveNone(
      [station_id |-> Str(station.code),
       timestamp |-> Num(ts),
       station_name |-> Str(station.name),
       latitude |-> Decimal(Num(station.lat)),
       longitude |-> Decimal(Num(station.lon)),
       temperature_c |-> DecimalIfTruthy(wd[2].temperature),
       snow_depth_m |-> DecimalIfTruthy(wd[2].snow_depth),
       wind_speed_kmh |-> DecimalIfTruthy(wd[2].wind_speed),
       visibility_m |-> DecimalIfTruthy(wd[2].visibility),
       conditions |-> wd[2].conditions,
       observation_time |-> wd[2].timestamp_obs])

----------------------------------------------------------------------------
(* The store.                                                              *)

\* The primary key of an item: partition key station_id, sort key timestamp.
KeyOf(item) == <<item.station_id[2], item.timestamp[2]>>

\* An item as the table holds and returns it: every number is a Decimal.
Stored(item) ==
    CHOOSE r \in {[k \in DOMAIN it |->
                      IF it[k][1] = "num" THEN Decimal(it[k]) ELSE it[k]] :
                     it \in {item}} : TRUE

\* table.put_item(Item=item): creates the item or replaces the one of its key.
PutItem(t, item) ==
    [k \in DOMAIN t \cup {KeyOf(item)} |->
        IF k = KeyOf(item) THEN Stored(item) ELSE t[k]]

\* What a call of put_item can do: succeed, or raise a client error.
PutOutcomes == {Returned(None), Raised("ClientError")}

----------------------------------------------------------------------------
(* The collection cycle (the collectors' lambda_handler).                  *)

\* json.dumps of a value without Decimals: the same value, as JSON text.
JsonDumps(x) == <<"json", x>>

\* Mutant of CountStatus: the filter on the status is lost.
CountStatusAny(rs, status) == Len(rs)

\* len([r for r in results if r['status'] == status])
CountStatus(rs, status) ==
    Cardinality({i \in 1..Len(rs) : rs[i].status = status})

\* The value the handler returns once the loop is over.
CollectorResponse(ts, rs) ==
    IF project = "precipitation"
    THEN [statusCode |-> 200,
          body |-> JsonDumps([timestamp |-> ts,
                              results_summary |->
                                  [total |-> Len(rs),
                                   success |-> CountStatus(rs, "success"),
                                   errors |-> CountStatus(rs, "error")]])]
    ELSE [statusCode |-> 200,
          body |-> JsonDumps([timestamp |-> ts, results |-> rs])]

\* The classification step of the loop body; the snowfall collector has none.
Classify(wd) ==
    IF project = "precipitation" THEN DeterminePrecipType(wd) ELSE Returned("")

\* The item of the loop body.
BuildItem(station, ts, wd, ptype) ==
    IF project = "precipitation"
    THEN PrecipItem(station, ts, wd, ptype)
    ELSE SnowItem(station, ts, wd)

ZeroCounts == [c \in StationCodes |-> 0]

\* An invocation starts: timestamp = int(time.time()), results = [].
StartCycle ==
    /\ pc \in {"idle", "returned", "raised"}
    /\ cycles < MaxCycles
    /\ \E t \in {now, now + 1} :   \* the clock may not have advanced
         /\ now' = t
         /\ timestamp' = t
    /\ cycles' = cycles + 1
    /\ results' = <<>>
    /\ idx' = 1
    /\ pc' = "loop"
    /\ response' = None
    /\ fetches' = ZeroCounts
    /\ puts' = ZeroCounts
    /\ wrote' = {}
    /\ UNCHANGED <<project, table, apiVars, classVars, aggVars>>

\* One iteration of `for station_code, station_info in STATIONS.items()`.
ProcessStation ==
    /\ pc = "loop"
    /\ idx <= Len(STATIONS)
    /\ \E http \in HttpResponses, put \in PutOutcomes :
         LET station == STATIONS[idx]
             wd == GetStationData(http)
         IN  /\ fetches' = [fetches EXCEPT ![station.code] = @ + 1]
             /\ IF ~Truthy(wd)
                THEN /\ results' = Append(results,
                                     [station |-> station.code, status |-> "no_data"])
                     /\ idx' = idx + 1
                     /\ UNCHANGED <<table, pc, response, puts, wrote>>
                ELSE IF IsRaised(Classify(wd))
                THEN \* the exception leaves the handler: the invocation fails
                     /\ pc' = "raised"
                     /\ response' = Classify(wd)
                     /\ UNCHANGED <<table, results, idx, puts, wrote>>
                ELSE LET item == BuildItem(station, timestamp, wd, Classify(wd)[2])
                     IN  /\ puts' = [puts EXCEPT ![station.code] = @ + 1]
                         /\ idx' = idx + 1
                         /\ UNCHANGED <<pc, response>>
                         /\ IF IsRaised(put)
                            THEN /\ results' = Append(results,
                                        [station |-> station.code, status |-> "error",
                                         error |-> put[2]])
                                 /\ UNCHANGED <<table, wrote>>
                            ELSE /\ table' = PutItem(table, item)
                                 /\ wrote' = wrote \cup {station.code}
                                 /\ results' = Append(results,
                                        [station |-> station.code, status |-> "success"])
    /\ UNCHANGED <<project, now, timestamp, cycles, apiVars, classVars, aggVars>>

\* The loop is over: the handler returns its summary.
ReturnSummary ==
    /\ pc = "loop"
    /\ idx > Len(STATIONS)
    /\ pc' = "returned"
    /\ response' = Returned(CollectorResponse(timestamp, results))
    /\ UNCHANGED <<project, table, now, idx, timestamp, results, fetches, puts,
                   wrote, cycles, apiVars, classVars, aggVars>>

Projects == {"precipitation", "snowfall"}

\* The collector is idle and the table empty.
CollectorIdle ==
    /\ table = <<>>
    /\ now = 1
    /\ pc = "idle"
    /\ idx = 1
    /\ timestamp = 0
    /\ results = <<>>
    /\ response = None
    /\ fetches = ZeroCounts
    /\ puts = ZeroCounts
    /\ wrote = {}
    /\ cycles = 0

\* No API request was served yet.
ApiIdle ==
    /\ event = None
    /\ scanned = None
    /\ apiResponse = None

\* No classifier, builder or aggregation run is modelled.
NoClassifierRun ==
    /\ weather_data = None
    /\ precip_type = None
    /\ built = None
NoAggregationRun ==
    /\ items = <<>>
    /\ latest_data = <<>>

Init ==
    /\ project \in Projects
    /\ CollectorIdle
    /\ ApiIdle
    /\ NoClassifierRun
    /\ NoAggregationRun

Next == StartCycle \/ ProcessStation \/ ReturnSummary

Spec == Init /\ [][Next]_vars

----------------------------------------------------------------------------
(* Properties of the collection cycle, checked under Spec.                 *)

\* The stations of this invocation whose fetch yielded no data, and those
\* whose put_item raised.
FetchFailed == {c \in StationCodes : fetches[c] > 0 /\ puts[c] = 0}
WriteFailed == {c \in StationCodes : puts[c] > 0 /\ c \notin wrote}

\* C4: a cycle over the N registered stations in which M fetches fail and K
\* of the remaining writes fail returns a summary with success = N - M - K,
\* and the handler returns without raising whatever the fetcher returned.
C4_CycleReturnsSuccessCount ==
    /\ pc # "raised"
    /\ (pc = "returned" /\ project = "precipitation") =>
          response[2].body[2].results_summary.success =
              Len(STATIONS) - Cardinality(FetchFailed) - Cardinality(WriteFailed)

\* C6 as claimed: the returned summary carries the counts of success, no_data
\* and error, which sum to the number of stations, and the per-station detail.
C6_SummaryCountsAndDetail ==
    pc = "returned" =>
        LET body == response[2].body[2]
        IN  /\ "results_summary" \in DOMAIN body
            /\ {"success", "no_data"} \subseteq DOMAIN body.results_summary
            /\ "results" \in DOMAIN body
            /\ Len(body.results) = Len(STATIONS)

\* The status the outcome of a station's fetch and write calls for.
StatusOf(c) ==
    IF c \in wrote THEN "success"
    ELSE IF c \in WriteFailed THEN "error"
    ELSE "no_data"

\* C6 amended: the precipitation summary carries only the counts total (the
\* number of stations), success and errors, so that the stations without data
\* are total - success - errors; the snowfall summary carries only the
\* per-station detail, one entry per station in registry order, with the
\* error text on a failed write.
C6_SummaryPerCollector ==
    pc = "returned" =>
        LET body == response[2].body[2]
        IN  IF project = "precipitation"
            THEN /\ DOMAIN body = {"timestamp", "results_summary"}
                 /\ DOMAIN body.results_summary = {"total", "success", "errors"}
                 /\ body.results_summary.total = Len(STATIONS)
                 /\ body.results_summary.success = Cardinality(wrote)
                 /\ body.results_summary.errors = Cardinality(WriteFailed)
                 /\ body.results_summary.total - body.results_summary.success
                        - body.results_summary.errors = Cardinality(FetchFailed)
            ELSE /\ DOMAIN body = {"timestamp", "results"}
                 /\ Len(body.results) = Len(STATIONS)
                 /\ \A i \in 1..Len(STATIONS) :
                      LET r == body.results[i]
                      IN  /\ r.station = STATIONS[i].code
                          /\ r.status = StatusOf(r.station)
                          /\ ("error" \in DOMAIN r) <=> (r.status = "error")
                          /\ (r.status = "error") => r.error = "ClientError"

\* C6 witness: a precipitation cycle has returned its summary after one
\* station had no data and the other's write failed.
C6_Witness ==
    /\ pc = "returned"
    /\ project = "precipitation"
    /\ FetchFailed # {}
    /\ WriteFailed # {}

\* C8: a record once written is never mutated or replaced: every record of
\* the store is still there, with the same field values, after every step.
C8_RecordsNeverReplaced ==
    [][\A k \in DOMAIN table : k \in DOMAIN table' /\ table'[k] = table[k]]_vars

\* C9: when an invocation ends, every station was fetched exactly once,
\* written at most once and has exactly one status, and every record written
\* carries the cycle timestamp.
C9_EveryStationProcessedOnce ==
    pc \in {"returned", "raised"} =>
        \A c \in StationCodes :
            /\ fetches[c] = 1
            /\ puts[c] <= 1
            /\ Cardinality({i \in 1..Len(results) : results[i].station = c}) = 1
            /\ c \in wrote =>
                  /\ <<c, timestamp>> \in DOMAIN table
                  /\ table[<<c, timestamp>>].timestamp = Decimal(Num(timestamp))

----------------------------------------------------------------------------
(* The classifier on its own: determine_precip_type applied to every       *)
(* weather_data the fetcher returns for a description text, a temperature  *)
(* and a last-hour precipitation.                                          *)

ConditionTexts ==
    {"Light Snow", "Heavy Rain", "Freezing Ice Pellets", "Cloudy", "Clear",
     "Light Drizzle", "SLEET", "Rain and Snow", "Unknown", ""}

Temperatures == {None} \cup {Num(n) : n \in (0 - MaxReading)..MaxReading}
Readings == {None} \cup {Num(n) : n \in 0..MaxReading}

InitClassify ==
    /\ project = "precipitation"
    /\ CollectorIdle
    /\ ApiIdle
    /\ NoAggregationRun
    /\ precip_type = None
    /\ built = None
    /\ \E t \in Temperatures, p \in Readings,
          text \in {Str(c) : c \in ConditionTexts} \cup {None} :
         weather_data = GetStationData(HttpOk(Dict(
             [properties |-> PropertiesOf(t, None, p, None, None, None, text)])))

\* precip_type = determine_precip_type(weather_data)
ClassifyObservation ==
    /\ precip_type = None
    /\ precip_type' = DeterminePrecipType(weather_data)
    /\ UNCHANGED <<project, collectVars, apiVars, weather_data, built, aggVars>>

NextClassify == ClassifyObservation

SpecClassify == InitClassify /\ [][NextClassify]_vars

\* The label the decision order of C2 gives.
ClaimedPrecipType(wd) ==
    LET conditions == Lower(Chars(wd[2].conditions[2]))
        temp_c == wd[2].temperature
        precip_1h == wd[2].precipitation_1h
    IN  IF Contains(WordSnow, conditions) THEN "snow"
        ELSE IF Contains(WordRain, conditions) THEN "rain"
        ELSE IF Contains(WordSleet, conditions) \/ Contains(WordIce, conditions)
             THEN "sleet"
        ELSE IF Contains(WordDrizzle, conditions) THEN "rain"
        ELSE IF ~IsNone(precip_1h) /\ precip_1h[2] > 0
             THEN (IF ~IsNone(temp_c) /\ temp_c[2] <= 0 THEN "snow" ELSE "rain")
        ELSE "none"

\* C2: for every description text, temperature and last-hour precipitation
\* the classifier returns the label of the decision order: snow, rain, sleet
\* or ice, drizzle, then the fallback (precipitation present and > 0: snow
\* when the temperature is present and <= 0, zero included, else rain), else
\* none.
C2_ClassifierDecisionOrder ==
    (precip_type # None /\ weather_data[2].conditions[1] = "str") =>
        precip_type = Returned(ClaimedPrecipType(weather_data))

----------------------------------------------------------------------------
(* The record builder on its own: the item each collector builds from      *)
(* every weather_data the fetcher returns, each numeric property being     *)
(* null, zero or positive independently of the others.                     *)

InitBuild ==
    /\ project \in Projects
    /\ CollectorIdle
    /\ ApiIdle
    /\ NoAggregationRun
    /\ precip_type = None
    /\ built = None
    /\ \E t \in Readings, sd \in Readings, p1 \in Readings, p3 \in Readings,
          ws \in Readings, vis \in Readings, text \in {Str("Cloudy"), None} :
         weather_data = GetStationData(HttpOk(Dict(
             [properties |-> PropertiesOf(t, sd, p1, p3, ws, vis, text)])))

\* The loop body from `if weather_data:` to the item handed to put_item.
BuildRecord ==
    /\ built = None
    /\ Truthy(weather_data)
    /\ ~IsRaised(Classify(weather_data))
    /\ built' = Dict(BuildItem(STATIONS[1], now, weather_data,
                               Classify(weather_data)[2]))
    /\ UNCHANGED <<project, collectVars, apiVars, weather_data, precip_type, aggVars>>

NextBuild == BuildRecord

SpecBuild == InitBuild /\ [][NextBuild]_vars

\* The weather_data key each optional numeric field of an item comes from.
SourceOf ==
    [temperature_c |-> "temperature", snow_depth_m |-> "snow_depth",
     precip_1h_mm |-> "precipitation_1h", precip_3h_mm |-> "precipitation_3h",
     wind_speed_kmh |-> "wind_speed", visibility_m |-> "visibility"]

\* C3: in a built record every optional numeric field is present exactly
\* when the fetched value is present (zero included), holds that value, and
\* no field holds a null placeholder; for both collectors.
C3_OptionalFieldPresentIffFetched ==
    built # None =>
        /\ \A k \in DOMAIN built[2] : ~IsNone(built[2][k])
        /\ \A f \in DOMAIN SourceOf :
             SourceOf[f] \in DOMAIN weather_data[2] =>
                LET v == weather_data[2][SourceOf[f]]
                IN  /\ (f \in DOMAIN built[2]) <=> ~IsNone(v)
                    /\ (f \in DOMAIN built[2]) => built[2][f] = Decimal(v)

----------------------------------------------------------------------------
(* The read API (the api lambda_handler of each deployment).               *)

MaxStamp == 2      \* stored records carry timestamps 1..MaxStamp
MaxItems == 3      \* an aggregation run reads at most MaxItems records
MaxStored == 80    \* a station holds at most MaxStored records (history runs)
HistoryLimit == 50 \* items[:50]

\* DecimalEncoder: json.dumps renders every Decimal of an item as a float.
JsonItem(item) ==
    CHOOSE r \in {[k \in DOMAIN it |->
                      IF it[k][1] = "dec" THEN Float(it[k]) ELSE it[k]] :
                     it \in {item}} : TRUE
JsonItems(its) == [i \in 1..Len(its) |-> JsonItem(its[i])]

\* Mutant of Newer: `>=` for `>`, so that a tie replaces the kept record.
NewerOrEqual(item, kept) == item.timestamp[2] >= kept.timestamp[2]

\* `timestamp > stations[station_id]['timestamp']`, timestamp = int(item['timestamp'])
Newer(item, kept) == item.timestamp[2] > kept.timestamp[2]

\* One iteration of `for item in items`.  The dict `stations` is kept as the
\* sequence of its values in insertion order.
GroupStep(stations, item) ==
    LET at == {j \in 1..Len(stations) : stations[j].station_id = item.station_id}
    IN  IF at = {} THEN Append(stations, item)
        ELSE LET j == CHOOSE j \in at : TRUE
             IN  IF Newer(item, stations[j])
                 THEN [stations EXCEPT ![j] = item]
                 ELSE stations

\* The whole loop: list(stations.values()).
RECURSIVE GroupLatest(_, _)
GroupLatest(its, stations) ==
    IF its = <<>> THEN stations
    ELSE GroupLatest(Tail(its), GroupStep(stations, Head(its)))

\* Mutant of RankDesc: the sort without reverse=True, ascending.
RankAsc(its, i) ==
    1 + Cardinality({j \in 1..Len(its) :
                       \/ its[j].timestamp[2] < its[i].timestamp[2]
                       \/ its[j].timestamp[2] = its[i].timestamp[2] /\ j < i})

\* The place the stable descending sort gives the i-th item: behind every
\* item with a greater timestamp and every earlier item with an equal one.
RankDesc(its, i) ==
    1 + Cardinality({j \in 1..Len(its) :
                       \/ its[j].timestamp[2] > its[i].timestamp[2]
                       \/ its[j].timestamp[2] = its[i].timestamp[2] /\ j < i})

\* list.sort(key=lambda x: x['timestamp'], reverse=True)
SortDesc(its) ==
    CHOOSE r \in UNION {{[p \in 1..Len(s) |-> s[CHOOSE i \in 1..Len(s) : rank[i] = p]] :
                           rank \in {[i \in 1..Len(s) |-> RankDesc(s, i)]}} :
                        s \in {its}} : TRUE

\* Mutant of HistoryWindow: items[-50:], the oldest of the sorted list.
HistoryWindowOldest(its) ==
    SubSeq(its, IF Len(its) < HistoryLimit THEN 1 ELSE Len(its) - HistoryLimit + 1,
           Len(its))

\* items[:50]
HistoryWindow(its) ==
    SubSeq(its, 1, IF Len(its) < HistoryLimit THEN Len(its) ELSE HistoryLimit)

\* station_param of a request: (event.get('queryStringParameters') or {}).get('station')
StationParam(ev) ==
    LET given == Get(ev, "queryStringParameters", None)
        query_params == IF Truthy(given) THEN given ELSE Dict(EmptyDict)
    IN  Get(query_params, "station", None)

CorsHeaders ==
    ("Content-Type" :> "application/json")
    @@ ("Access-Control-Allow-Origin" :> "*")
    @@ ("Access-Control-Allow-Headers" :> "Content-Type")
    @@ ("Access-Control-Allow-Methods" :> "GET,OPTIONS")
ErrorHeaders ==
    ("Content-Type" :> "application/json")
    @@ ("Access-Control-Allow-Origin" :> "*")

\* The except branch: status 500 with the given error text.
ErrorResponse(text) ==
    [statusCode |-> 500, headers |-> ErrorHeaders,
     body |-> JsonDumps([error |-> text])]

\* The precipitation API handler, given what table.scan did.
PrecipApiHandler(ev, scan) ==
    IF IsRaised(scan) THEN ErrorResponse("Internal Server Error")
    ELSE LET its == Get(scan[2], "Items", List(<<>>))[2]
             station_param == StationParam(ev)
         IN  IF Truthy(station_param)
             THEN LET history == HistoryWindow(SortDesc(its))
                  IN  [statusCode |-> 200, headers |-> CorsHeaders,
                       body |-> JsonDumps([station_id |-> station_param,
                                           history |-> JsonItems(history),
                                           count |-> Len(history)])]
             ELSE LET latest == SortDesc(GroupLatest(its, <<>>))
                  IN  [statusCode |-> 200, headers |-> CorsHeaders,
                       body |-> JsonDumps([stations |-> JsonItems(latest),
                                           count |-> Len(latest),
                                           metadata |->
                                             [source |-> "National Weather Service",
                                              type |-> "Precipitation Data"]])]

\* The snowfall API handler; its except branch answers with str(e).
SnowApiHandler(ev, scan) ==
    IF IsRaised(scan) THEN ErrorResponse(scan[2])
    ELSE LET its == Get(scan[2], "Items", List(<<>>))[2]
             latest == SortDesc(GroupLatest(its, <<>>))
         IN  [statusCode |-> 200, headers |-> CorsHeaders,
              body |-> JsonDumps([stations |-> JsonItems(latest),
                                  count |-> Len(latest)])]

ApiHandler(ev, scan) ==
    IF project = "precipitation" THEN PrecipApiHandler(ev, scan)
    ELSE SnowApiHandler(ev, scan)

\* Whether the request takes the history branch.
IsHistoryRequest(ev) == project = "precipitation" /\ Truthy(StationParam(ev))

\* The keys the scan of a request reads: those of the station for a history
\* request (FilterExpression station_id = station_param), else all.
ScannedKeys(t, ev) ==
    IF IsHistoryRequest(ev)
    THEN {k \in DOMAIN t : k[1] = StationParam(ev)[2]}
    ELSE DOMAIN t

\* The text of the exception a failing scan raises.
ScanError == "An error occurred (InternalServerError) when calling the Scan operation"

\* The response of table.scan over the keys in the order p.
ScanResult(t, p) == Returned(Dict([Items |-> List([i \in 1..Len(p) |-> t[p[i]]])]))

RECURSIVE Perms(_)
Perms(S) ==
    IF S = {} THEN {<<>>}
    ELSE UNION {{<<x>> \o p : p \in Perms(S \ {x})} : x \in S}

\* What table.scan can do: raise, or return the items in any order.
ScanOutcomes(t, keys) ==
    {Raised(ScanError)} \cup {ScanResult(t, p) : p \in Perms(keys)}

\* The requests the API receives.
Events ==
    {Dict(EmptyDict),
     Dict([queryStringParameters |-> None]),
     Dict([queryStringParameters |-> Dict([station |-> Str("")])]),
     Dict([queryStringParameters |-> Dict([station |-> Str("KORD")])]),
     Dict([queryStringParameters |-> Dict([station |-> Str("KXYZ")])])}

\* The record a cycle at time ts stores for a station: without "properties"
\* at odd times, with zero readings at even times.
StoredRecord(station, ts) ==
    LET http == IF ts % 2 = 1 THEN HttpOk(Dict(EmptyDict))
                ELSE HttpOk(Dict([properties |-> Properties(Num(0), Str("Cloudy"))]))
    IN  CHOOSE r \in {Stored(BuildItem(station, ts, wd, Classify(wd)[2])) :
                         wd \in {GetStationData(http)}} : TRUE

\* The table holding a record for exactly the given keys.
TableOf(keys) ==
    [k \in keys |->
        StoredRecord(STATIONS[CHOOSE i \in 1..Len(STATIONS) : STATIONS[i].code = k[1]],
                     k[2])]

\* The collector variables of an API run: the table holds what earlier
\* cycles stored, the collector is idle.
InitApi ==
    /\ project \in Projects
    /\ \E keys \in SUBSET (StationCodes \X (1..MaxStamp)) : table = TableOf(keys)
    /\ now = MaxStamp
    /\ pc = "idle"
    /\ idx = 1
    /\ timestamp = 0
    /\ results = <<>>
    /\ response = None
    /\ fetches = ZeroCounts
    /\ puts = ZeroCounts
    /\ wrote = {}
    /\ cycles = 0
    /\ ApiIdle
    /\ NoClassifierRun
    /\ NoAggregationRun

\* One API invocation; invocations share no state, so one per behaviour.
ApiRequest ==
    /\ apiResponse = None
    /\ \E ev \in Events :
         \E scan \in ScanOutcomes(table, ScannedKeys(table, ev)) :
            /\ event' = ev
            /\ scanned' = scan
            /\ apiResponse' = Returned(ApiHandler(ev, scan))
    /\ UNCHANGED <<project, collectVars, classVars, aggVars>>

NextApi == ApiRequest

SpecApi == InitApi /\ [][NextApi]_vars

\* The body of an API response, before serialisation.
ApiBody == apiResponse[2].body[2]

\* C7: when the scan or the aggregation of a read request raises, the
\* handler answers with status 500 and a body that does not carry the text of
\* the exception; for both read APIs.
C7_QueryFailureIsGeneric ==
    (apiResponse # None /\ IsRaised(scanned)) =>
        /\ apiResponse[2].statusCode = 500
        /\ ApiBody.error # scanned[2]

\* C10: the query without a station answers 200 with the records in
\* non-increasing timestamp order and a count that is the number of returned
\* records and the number of distinct station_ids in the store; for an empty
\* store the list is empty and the count 0.
C10_LatestQuery ==
    (apiResponse # None /\ ~IsRaised(scanned) /\ ~IsHistoryRequest(event)) =>
        /\ apiResponse[2].statusCode = 200
        /\ \A i \in 1..(Len(ApiBody.stations) - 1) :
             ApiBody.stations[i].timestamp[2] >= ApiBody.stations[i + 1].timestamp[2]
        /\ ApiBody.count = Len(ApiBody.stations)
        /\ ApiBody.count = Cardinality({k[1] : k \in DOMAIN table})
        /\ (DOMAIN table = {}) => (ApiBody.stations = <<>> /\ ApiBody.count = 0)

\* C10 witness: a query without a station was answered from a store holding
\* several records of each of two stations.
C10_Witness ==
    /\ apiResponse # None
    /\ ~IsRaised(scanned)
    /\ ~IsHistoryRequest(event)
    /\ Cardinality(DOMAIN table) > 2
    /\ ApiBody.count = 2

----------------------------------------------------------------------------
(* The aggregation on its own: the query without a station applied to      *)
(* every sequence of at most MaxItems records, records with equal station  *)
(* and timestamp included.                                                 *)

AggRecords ==
    {[station_id |-> Str(c), timestamp |-> Decimal(Num(t)), conditions |-> Str(x)] :
        c \in {"KORD", "KMDW"}, t \in 1..MaxStamp, x \in {"Cloudy", "Clear"}}

InitAggregate ==
    /\ project \in Projects
    /\ CollectorIdle
    /\ ApiIdle
    /\ NoClassifierRun
    /\ items \in UNION {[1..n -> AggRecords] : n \in 0..MaxItems}
    /\ latest_data = None

\* The handler's answer to a request without a station, the scan having
\* returned `items`.
Aggregate ==
    /\ latest_data = None
    /\ latest_data' =
          List(ApiHandler(Dict(EmptyDict),
                          Returned(Dict([Items |-> List(items)]))).body[2].stations)
    /\ UNCHANGED <<project, collectVars, apiVars, classVars, items>>

NextAggregate == Aggregate

SpecAggregate == InitAggregate /\ [][NextAggregate]_vars

\* The positions of a station's records in the input, its greatest
\* timestamp, and the first position holding it.
PositionsOf(sid) == {i \in 1..Len(items) : items[i].station_id = sid}
MaxStampOf(sid) ==
    CHOOSE t \in {items[i].timestamp[2] : i \in PositionsOf(sid)} :
        \A i \in PositionsOf(sid) : items[i].timestamp[2] <= t
FirstLatestOf(sid) ==
    CHOOSE i \in PositionsOf(sid) :
        /\ items[i].timestamp[2] = MaxStampOf(sid)
        /\ \A k \in PositionsOf(sid) :
             items[k].timestamp[2] = MaxStampOf(sid) => i <= k

\* C1: for every input and every station_id in it the output holds exactly
\* one record of that station, the first in iteration order among those with
\* the station's maximum timestamp; the output holds no other station.
C1_LatestPerStation ==
    latest_data # None =>
        LET out == latest_data[2]
        IN  /\ \A j \in 1..Len(out) : PositionsOf(out[j].station_id) # {}
            /\ \A i \in 1..Len(items) :
                 LET sid == items[i].station_id
                     outs == {j \in 1..Len(out) : out[j].station_id = sid}
                 IN  /\ Cardinality(outs) = 1
                     /\ \A j \in outs : out[j] = JsonItem(items[FirstLatestOf(sid)])

\* C1 witness: the aggregation has run on an input in which two different
\* records of one station share that station's maximum timestamp.
C1_Witness ==
    /\ latest_data # None
    /\ \E i, k \in 1..Len(items) :
         /\ i < k
         /\ items[i].station_id = items[k].station_id
         /\ items[i].timestamp = items[k].timestamp
         /\ items[i] # items[k]
         /\ items[i].timestamp[2] = MaxStampOf(items[i].station_id)

----------------------------------------------------------------------------
(* The history query on a long-running store: KORD holds up to MaxStored   *)
(* records, one per cycle.                                                 *)

\* Orders in which a scan may return n records: oldest first, newest first,
\* even timestamps before odd ones.
HistoryOrders(n) ==
    {[i \in 1..n |-> i],
     [i \in 1..n |-> n + 1 - i],
     [i \in 1..n |-> IF i <= n \div 2 THEN 2 * i ELSE 2 * (i - n \div 2) - 1]}

InitHistory ==
    /\ project = "precipitation"
    /\ \E n \in 0..MaxStored, m \in 0..1 :
         table = TableOf(({"KORD"} \X (1..n)) \cup ({"KMDW"} \X (1..m)))
    /\ now = MaxStored
    /\ pc = "idle"
    /\ idx = 1
    /\ timestamp = 0
    /\ results = <<>>
    /\ response = None
    /\ fetches = ZeroCounts
    /\ puts = ZeroCounts
    /\ wrote = {}
    /\ cycles = 0
    /\ ApiIdle
    /\ NoClassifierRun
    /\ NoAggregationRun

\* One API invocation with a station given.
HistoryRequest ==
    /\ apiResponse = None
    /\ \E station \in {"KORD", "KMDW", "KXYZ"} :
         LET ev == Dict([queryStringParameters |-> Dict([station |-> Str(station)])])
             n == Cardinality(ScannedKeys(table, ev))
         IN  \E scan \in {Raised(ScanError)} \cup
                         {ScanResult(table, [i \in 1..n |-> <<station, order[i]>>]) :
                             order \in HistoryOrders(n)} :
                /\ event' = ev
                /\ scanned' = scan
                /\ apiResponse' = Returned(ApiHandler(ev, scan))
    /\ UNCHANGED <<project, collectVars, classVars, aggVars>>

NextHistory == HistoryRequest

SpecHistory == InitHistory /\ [][NextHistory]_vars

\* The keys the store holds for the queried station.
StoredFor(ev) == {k \in DOMAIN table : k[1] = StationParam(ev)[2]}

\* C5: a history query returns only records of the queried station, as the
\* store holds them, in strictly descending timestamp order, and they are the
\* min(50, n) most recent of the station's n records; count is their number.
C5_HistoryQuery ==
    (apiResponse # None /\ ~IsRaised(scanned) /\ IsHistoryRequest(event)) =>
        LET h == ApiBody.history
            n == Cardinality(StoredFor(event))
        IN  /\ apiResponse[2].statusCode = 200
            /\ Len(h) = (IF n < 50 THEN n ELSE 50)
            /\ ApiBody.count = Len(h)
            /\ \A i \in 1..Len(h) :
                 /\ h[i].station_id = StationParam(event)
                 /\ <<h[i].station_id[2], h[i].timestamp[2]>> \in StoredFor(event)
                 /\ h[i] = JsonItem(table[<<h[i].station_id[2], h[i].timestamp[2]>>])
            /\ \A i \in 1..(Len(h) - 1) : h[i].timestamp[2] > h[i + 1].timestamp[2]
            /\ \A k \in StoredFor(event) :
                 (\A i \in 1..Len(h) : h[i].timestamp[2] # k[2]) =>
                     \A i \in 1..Len(h) : h[i].timestamp[2] > k[2]

\* C5 witness: the history of a station with 80 stored records was returned
\* with count 50.
C5_Witness ==
    /\ apiResponse # None
    /\ ~IsRaised(scanned)
    /\ IsHistoryRequest(event)
    /\ Cardinality(StoredFor(event)) = 80
    /\ ApiBody.count = 50

====
